---- MODULE Spec2Model ----
(***************************************************************************)
(* Session resolution and credential gate of the DreamWeave dashboard.     *)
(*                                                                         *)
(*   AuthProvider      src/src/app/contexts/AuthContext.tsx                *)
(*   ProtectedRoute    src/unnamed/part_004                                *)
(*   RootLayout        src/unnamed/part_002                                *)
(*   LoginPage         src/src/app/login/page.tsx                          *)
(*   AuthButton        src/src/app/components/AuthButton.tsx               *)
(*   Dashboard         src/src/app/page.tsx                                *)
(*   credential store  src/unnamed/part_001 (verify_credentials_simple)    *)
(*                                                                         *)
(* Execution is single threaded and event driven: every action below is    *)
(* one run-to-completion piece of a handler (from its start, or from the   *)
(* resumption of an await, up to the next await or its return), followed   *)
(* by the re-render React performs for the state updates of that piece.    *)
(***************************************************************************)
EXTENDS Integers, Sequences, FiniteSets, TLC

VARIABLES
    user,           \* AuthProvider useState: user        (AuthContext.tsx:33)
    session,        \* AuthProvider useState: session     (AuthContext.tsx:34)
    loading,        \* AuthProvider useState: loading     (AuthContext.tsx:35)
    storedUser,     \* localStorage['dreamweave_credentials_user']
    storedSession,  \* localStorage['dreamweave_credentials_session']
    dateNow,        \* Date.now(), milliseconds since the epoch
    credRow,        \* the 'admin' row of the credentials table (part_001:5-46)
    initPc,         \* position of getInitialSession
    pass,           \* the branch its persisted-session check took, "none" before it
    getSessionCalls,\* calls of supabase.auth.getSession() since the fresh start
    loginPc,        \* position of LoginPage.handleSubmit
    loginArgs,      \* the (username, password) of the pending rpc
    isLoading,      \* LoginPage useState: isLoading      (login/page.tsx:14)
    signOutPc,      \* position of AuthButton.handleSignOut / signOut
    toast,          \* the toast the last handler piece showed, "none" when it showed none
    route,          \* the page the router shows: "/" (Dashboard) or "/login"
    view,           \* what ProtectedRoute rendered last
    interval,       \* Dashboard's setInterval(refreshDashboard, 30000) is set
    nTesting,       \* refreshDashboard runs awaiting testDatabaseConnection
    nFetching,      \* refreshDashboard runs awaiting their first batch of fetches
    issued,         \* the gate state at each database fetch the last handler piece issued
    written,        \* id, role and expires_at the last credentials login wrote to
                    \* localStorage, NotWritten after a sign-out and before any login
    last,           \* the handler piece that ran last and how it went
    apiKey,         \* process.env.ELEVENLABS_API_KEY is set      (part_003:43)
    supabase,       \* the voices page has a Supabase client      (page.tsx:2079)
    upstream,       \* what the ElevenLabs API answers to the page requests, in order
    voices,         \* voices page useState: voices               (page.tsx:1909)
    voicesPc,       \* position of fetchAndSyncVoices
    closureVoices,  \* `voices` as the running fetchAndSyncVoices closed over it
    response,       \* the response of GET /api/elevenlabs/voices to the last fetch
    pending,        \* the voices syncVoicesToSupabase has still to upsert
    upserts,        \* the voice of each upsert the running or last sync issued
    successCount,   \* syncVoicesToSupabase: successCount       (page.tsx:2084)
    errorCount,     \* syncVoicesToSupabase: errorCount         (page.tsx:2085)
    dbVoices,       \* the voice_id values of the rows of table `voices`
    voicesToast     \* the toasts the last piece of the voices page showed

authVars  == <<user, session, loading>>
storeVars == <<storedUser, storedSession>>
loginVars == <<loginPc, loginArgs, isLoading>>
dashVars  == <<interval, nTesting, nFetching>>
gateVars  == <<user, session, loading, storedUser, storedSession, dateNow, credRow,
               initPc, pass, getSessionCalls, loginPc, loginArgs, isLoading,
               signOutPc, toast, route, view, interval, nTesting, nFetching,
               issued, written, last>>
voiceVars == <<apiKey, supabase, upstream, voices, voicesPc, closureVoices,
               response, pending, upserts, successCount, errorCount, dbVoices,
               voicesToast>>
vars == <<user, session, loading, storedUser, storedSession, dateNow, credRow,
          initPc, pass, getSessionCalls, loginPc, loginArgs, isLoading, signOutPc,
          toast, route, view, interval, nTesting, nFetching, issued, written, last,
          apiKey, supabase, upstream, voices, voicesPc, closureVoices, response,
          pending, upserts, successCount, errorCount, dbVoices, voicesToast>>

(***************************************************************************)
(* Bounds of the model.                                                    *)
(***************************************************************************)
\* The clock is sampled around the multiples of the session lifetime, up to
\* this many lifetimes after the epoch.
MaxHours == 1
\* refreshDashboard runs that may be in flight at once.
MaxInFlight == 1
\* Pages the ElevenLabs API may split the voices into.
MaxPages == 2

(***************************************************************************)
(* Program constants.                                                      *)
(***************************************************************************)
\* expires_in: 3600 and expires_at: ... + 3600     (AuthContext.tsx:160-161)
SessionLifetime == 3600
\* Date.now() / 1000                               (AuthContext.tsx:51, 161)
MsPerSecond == 1000

(***************************************************************************)
(* Values.                                                                 *)
(***************************************************************************)
\* null, for a user and for a session.  Records of one shape throughout.
NoUser == [id |-> "null", email |-> "null", role |-> "null", provider |-> "null"]
NoSession == [access_token |-> "null", expires_at |-> 0, user |-> NoUser]

\* role TEXT DEFAULT 'user' CHECK (role IN ('admin', 'user'))
Roles == {"admin", "user"}

\* The one session the federated provider (Supabase auth) can hold here.
FedUser == [id |-> "fed-1", email |-> "fed@example.com", role |-> "null",
            provider |-> "email"]
FedSession == [access_token |-> "fed-access-token", expires_at |-> 0, user |-> FedUser]
FedSessions == {FedSession}

\* Math.floor(Date.now() / 1000)
EpochSeconds(ms) == ms \div MsPerSecond

\* The sampled instants of the clock, in milliseconds: the epoch, and around
\* every multiple of the lifetime the last millisecond before it, the last
\* millisecond of its second, and the first millisecond of the next second.
ClockPoints ==
    {0} \cup {k * SessionLifetime * MsPerSecond + d :
                 k \in 1..MaxHours, d \in {-1, MsPerSecond - 1, MsPerSecond}}

(***************************************************************************)
(* localStorage entries and JSON.                                          *)
(*                                                                         *)
(* An entry is absent (getItem returns null), a string JSON.stringify      *)
(* produced, or a string JSON.parse throws on.  The credentials user and   *)
(* session hold strings and integers only, which JSON carries unchanged.   *)
(***************************************************************************)
AbsentUserEntry == [kind |-> "absent", val |-> NoUser]
AbsentSessionEntry == [kind |-> "absent", val |-> NoSession]
CorruptUserEntry == [kind |-> "corrupt", val |-> NoUser]
CorruptSessionEntry == [kind |-> "corrupt", val |-> NoSession]

\* JSON.stringify(value)
JSONStringify(value) == [kind |-> "json", val |-> value]
\* JSON.parse(text) throws a SyntaxError
JSONParseThrows(entry) == entry.kind = "corrupt"
\* JSON.parse(text), for a text it does not throw on
JSONParse(entry) == entry.val
\* the truthiness of a string localStorage.getItem returned
Present(entry) == entry.kind # "absent"

\* setItem that keeps an entry that is already there.
SetItemIfAbsent(entry, text) == IF Present(entry) THEN entry ELSE text
\* localStorage.setItem(key, text): the entry under the key afterwards
SetItem(entry, text) == text

NotWritten == [id |-> "null", role |-> "null", expires_at |-> 0]

\* No user taken from the session.
SessionUserNever(s) == NoUser

\* The user kept when the session is null.
SessionUserKeepCurrent(s) == IF s = NoSession THEN user ELSE s.user

\* session?.user as AuthUser || null               (AuthContext.tsx:72, 92)
SessionUser(s) == IF s = NoSession THEN NoUser ELSE s.user

(***************************************************************************)
(* ProtectedRoute                                      part_004:10-32      *)
(***************************************************************************)
\* ProtectedRoute without its `if (!user)` branch.
ProtectedRouteNoUserCheck(l, u) ==
    IF l THEN "loading" ELSE "children"

ProtectedRoute(l, u) ==
    IF l THEN "loading"
    ELSE IF u = NoUser THEN "login"
    ELSE "children"

(***************************************************************************)
(* Dashboard: mounted exactly while ProtectedRoute renders its children    *)
(* (RootLayout, part_002:33-39).                                           *)
(***************************************************************************)
InFlight == nTesting + nFetching

\* The gate state a database fetch is issued in.
Issue(l, u) == [loading |-> l, authed |-> u # NoUser]

\* ProtectedRoute re-renders with the new (loading, user), the router being
\* at r.  When it renders its children at "/login", LoginPage's effect
\* redirects to "/" (login/page.tsx:24-28).  The Dashboard's
\* effects run on mount (page.tsx:551-553: refreshDashboard() is called, which
\* issues testDatabaseConnection's query at once, and the interval is set)
\* and are cleaned up on unmount (page.tsx:555: the interval is cleared; a
\* refreshDashboard already running is not cancelled).
Commit(l, u, r) ==
    LET v == ProtectedRoute(l, u) IN
    /\ view' = v
    /\ route' = IF v = "children" THEN "/" ELSE r
    /\ IF v = "children" /\ view # "children"
       THEN /\ InFlight < MaxInFlight
            /\ interval' = TRUE
            /\ nTesting' = nTesting + 1
            /\ issued' = {Issue(l, u)}
            /\ UNCHANGED nFetching
       ELSE IF v # "children" /\ view = "children"
       THEN /\ interval' = FALSE
            /\ issued' = {}
            /\ UNCHANGED <<nTesting, nFetching>>
       ELSE /\ issued' = {}
            /\ UNCHANGED dashVars

\* What a handler piece leaves in `last`: exp is the expires_at of the
\* persisted session it read (getInitialSession) or replaced
\* (signInWithCredentials), 0 for every other piece; was is the id of the
\* user in memory when the piece started.
DidAt(op, res, exp) ==
    last' = [op |-> op, res |-> res, exp |-> exp, was |-> user.id]
Did(op, res) == DidAt(op, res, 0)

(***************************************************************************)
(* AuthProvider: the initial resolution pass and the subscription          *)
(*                                               AuthContext.tsx:37-97     *)
(***************************************************************************)
\* The test with >= for >.
SessionStillValidNotStrict(s, ms) ==
    s.expires_at # 0 /\ s.expires_at >= EpochSeconds(ms)

\* The test against Date.now() itself, in milliseconds.
SessionStillValidMillis(s, ms) ==
    s.expires_at # 0 /\ s.expires_at > ms

\* session.expires_at && session.expires_at > Math.floor(Date.now() / 1000)

SessionStillValid(s, ms) ==
    s.expires_at # 0 /\ s.expires_at > EpochSeconds(ms)

\* getInitialSession treating entries that do not parse like an expired
\* session: it removes them and goes on to getSession.
PersistedOutcomeUnparsableCleared(su, ss, ms) ==
    IF Present(su) /\ Present(ss)
    THEN IF JSONParseThrows(su) \/ JSONParseThrows(ss) THEN "expired"
         ELSE IF SessionStillValid(JSONParse(ss), ms) THEN "persisted"
         ELSE "expired"
    ELSE "absent"

\* getInitialSession without its persisted-session check.
PersistedOutcomeSkipped(su, ss, ms) == "absent"

\* getInitialSession without the else branch that clears an expired session.
PersistedOutcomeNoCleanup(su, ss, ms) ==
    IF Present(su) /\ Present(ss)
    THEN IF JSONParseThrows(su) \/ JSONParseThrows(ss) THEN "throw"
         ELSE IF SessionStillValid(JSONParse(ss), ms) THEN "persisted"
         ELSE "absent"
    ELSE "absent"

\* What the synchronous part of getInitialSession (lines 40-64) comes to.
PersistedOutcome(su, ss, ms) ==
    IF Present(su) /\ Present(ss)
    THEN IF JSONParseThrows(su) \/ JSONParseThrows(ss) THEN "throw"
         ELSE IF SessionStillValid(JSONParse(ss), ms) THEN "persisted"
         ELSE "expired"
    ELSE "absent"

\* const { data: { session }, error } = await supabase.auth.getSession()
\* resolves with a session or none, resolves with an error, or rejects.
GetSessionResults ==
    {[kind |-> "ok", session |-> s] : s \in {NoSession} \cup FedSessions}
    \cup {[kind |-> "error", session |-> NoSession],
          [kind |-> "throw", session |-> NoSession]}

\* How the call went: with a session, with none, with an error, by throwing.
GetSessionKind(r) ==
    IF r.kind = "ok" THEN (IF r.session = NoSession THEN "none" ELSE "session")
    ELSE r.kind

\* The federated branch with a staleness check: the result is dropped when
\* the state was settled while getSession was pending.
FederatedSessionUnlessSettled(r) ==
    IF ~loading THEN session
    ELSE IF r.kind = "ok" THEN r.session ELSE NoSession

\* The federated branch leaving the session as it is when the call fails.
FederatedSessionKeptOnFailure(r) == IF r.kind = "ok" THEN r.session ELSE session

\* The session the federated branch of getInitialSession writes (lines 66-77):
\* the one getSession resolved with, null after an error or a throw.
FederatedSession(r) == IF r.kind = "ok" THEN r.session ELSE NoSession

\* getInitialSession, from its call in the effect to its first await or return.
GetInitialSession ==
    /\ initPc = "start"
    /\ LET res == PersistedOutcome(storedUser, storedSession, dateNow) IN
       /\ DidAt("getInitialSession", res,
                IF res \in {"persisted", "expired"}
                THEN JSONParse(storedSession).expires_at ELSE 0)
       /\ pass' = res
       /\ CASE res = "persisted" ->
                 /\ user' = JSONParse(storedUser)
                 /\ session' = JSONParse(storedSession)
                 /\ loading' = FALSE
                 /\ initPc' = "done"
                 /\ UNCHANGED <<storeVars, getSessionCalls>>
            [] res = "throw" ->
                 /\ user' = NoUser
                 /\ session' = NoSession
                 /\ loading' = FALSE
                 /\ initPc' = "done"
                 /\ UNCHANGED <<storeVars, getSessionCalls>>
            [] res = "expired" ->
                 /\ storedUser' = AbsentUserEntry
                 /\ storedSession' = AbsentSessionEntry
                 /\ getSessionCalls' = getSessionCalls + 1
                 /\ initPc' = "awaitGetSession"
                 /\ UNCHANGED authVars
            [] res = "absent" ->
                 /\ getSessionCalls' = getSessionCalls + 1
                 /\ initPc' = "awaitGetSession"
                 /\ UNCHANGED <<authVars, storeVars>>
    /\ Commit(loading', user', route)
    /\ toast' = "none"
    /\ UNCHANGED <<dateNow, credRow, loginVars, signOutPc, written>>
    /\ UNCHANGED voiceVars

\* getInitialSession without its `finally { setLoading(false) }`: loading is
\* left as it is when getSession threw.
GetSessionReturnNoFinally(r) ==
    /\ initPc = "awaitGetSession"
    /\ session' = FederatedSession(r)
    /\ user' = SessionUser(FederatedSession(r))
    /\ loading' = IF GetSessionKind(r) = "throw" THEN loading ELSE FALSE
    /\ initPc' = "done"
    /\ Did("getSessionReturn", GetSessionKind(r))
    /\ Commit(loading', user', route)
    /\ toast' = "none"
    /\ UNCHANGED <<storeVars, dateNow, credRow, pass, getSessionCalls, loginVars,
                   signOutPc, written>>
    /\ UNCHANGED voiceVars

\* getInitialSession resumed after `await supabase.auth.getSession()`.
GetSessionReturn(r) ==
    /\ initPc = "awaitGetSession"
    /\ session' = FederatedSession(r)
    /\ user' = SessionUser(FederatedSession(r))
    /\ loading' = FALSE
    /\ initPc' = "done"
    /\ Did("getSessionReturn", GetSessionKind(r))
    /\ Commit(loading', user', route)
    /\ toast' = "none"
    /\ UNCHANGED <<storeVars, dateNow, credRow, pass, getSessionCalls, loginVars,
                   signOutPc, written>>
    /\ UNCHANGED voiceVars

\* The callback clearing the persisted entries with a sign-out notification.
OnAuthStateChangeClearsStorage(s) ==
    /\ initPc # "start"
    /\ session' = s
    /\ user' = SessionUser(s)
    /\ loading' = FALSE
    /\ IF s = NoSession
       THEN storedUser' = AbsentUserEntry /\ storedSession' = AbsentSessionEntry
       ELSE UNCHANGED storeVars
    /\ Did("onAuthStateChange", IF s = NoSession THEN "none" ELSE "session")
    /\ Commit(loading', user', route)
    /\ toast' = "none"
    /\ UNCHANGED <<dateNow, credRow, initPc, pass, getSessionCalls,
                   loginVars, signOutPc, written>>
    /\ UNCHANGED voiceVars

\* The callback taking up sessions only: a notification without a session
\* leaves user and session as they are.
OnAuthStateChangeIgnoresSignOut(s) ==
    /\ initPc # "start"
    /\ IF s = NoSession
       THEN UNCHANGED <<session, user>>
       ELSE session' = s /\ user' = SessionUser(s)
    /\ loading' = FALSE
    /\ Did("onAuthStateChange", IF s = NoSession THEN "none" ELSE "session")
    /\ Commit(loading', user', route)
    /\ toast' = "none"
    /\ UNCHANGED <<storeVars, dateNow, credRow, initPc, pass, getSessionCalls,
                   loginVars, signOutPc, written>>
    /\ UNCHANGED voiceVars

\* The callback with setLoading(true) in place of setLoading(false).
OnAuthStateChangeSetsLoading(s) ==
    /\ initPc # "start"
    /\ session' = s
    /\ user' = SessionUser(s)
    /\ loading' = TRUE
    /\ Did("onAuthStateChange", IF s = NoSession THEN "none" ELSE "session")
    /\ Commit(loading', user', route)
    /\ toast' = "none"
    /\ UNCHANGED <<storeVars, dateNow, credRow, initPc, pass, getSessionCalls,
                   loginVars, signOutPc, written>>
    /\ UNCHANGED voiceVars

\* The onAuthStateChange callback (lines 88-94); registered by the same
\* effect, right after getInitialSession() was called.
OnAuthStateChange(s) ==
    /\ initPc # "start"
    /\ session' = s
    /\ user' = SessionUser(s)
    /\ loading' = FALSE
    /\ Did("onAuthStateChange", IF s = NoSession THEN "none" ELSE "session")
    /\ Commit(loading', user', route)
    /\ toast' = "none"
    /\ UNCHANGED <<storeVars, dateNow, credRow, initPc, pass, getSessionCalls,
                   loginVars, signOutPc, written>>
    /\ UNCHANGED voiceVars

(***************************************************************************)
(* The credential store                              part_001:86-118       *)
(***************************************************************************)
AdminPassword == "Wreke2re?es?"
Usernames == {"admin", "guest", ""}
Passwords == {AdminPassword, "wrong", ""}

\* The row of user 'admin' as the function returns it.
AdminRecord == [user_id |-> "admin-id", username |-> "admin",
                email |-> "admin@dreamweave.local", role |-> credRow.role]

\* The function without `AND c.is_active = true`.
VerifyCredentialsSimpleAnyRow(u, p) ==
    IF u # "admin" THEN <<>>
    ELSE IF p = AdminPassword /\ u = "admin" THEN <<AdminRecord>>
    ELSE <<>>

\* verify_credentials_simple(input_username, input_password): the rows returned.
VerifyCredentialsSimple(u, p) ==
    IF ~(u = "admin" /\ credRow.is_active) THEN <<>>
    ELSE IF p = AdminPassword /\ u = "admin" THEN <<AdminRecord>>
    ELSE <<>>

\* const { data, error } = await supabase.rpc(...): the call resolves with the
\* rows, resolves with data null, resolves with an error, or rejects.
RpcResults(u, p) ==
    {[kind |-> "ok", data |-> VerifyCredentialsSimple(u, p)],
     [kind |-> "null", data |-> <<>>],
     [kind |-> "error", data |-> <<>>],
     [kind |-> "throw", data |-> <<>>]}

\* How the call went: rows, no rows, data null, an error, by throwing.
RpcKind(r) ==
    IF r.kind = "ok" THEN (IF Len(r.data) = 0 THEN "empty" ELSE "match")
    ELSE r.kind

(***************************************************************************)
(* signInWithCredentials                          AuthContext.tsx:112-179  *)
(***************************************************************************)
\* The error string signInWithCredentials returns; "null" for { error: null }.
SignInError(r) ==
    IF r.kind = "throw" THEN "Authentication failed"
    ELSE IF r.kind = "error" THEN "Invalid credentials"
    ELSE IF r.kind = "null" \/ Len(r.data) = 0 THEN "Invalid username or password"
    ELSE "null"

\* mockUser with the role of the welcome toast ('admin') for every record.
MockUserAlwaysAdmin(userInfo) ==
    [id |-> userInfo.user_id, email |-> userInfo.email,
     role |-> "admin", provider |-> "credentials"]

\* mockUser (lines 136-154): id, email, user_metadata.role = app_metadata.role,
\* app_metadata.provider.
MockUser(userInfo) ==
    [id |-> userInfo.user_id, email |-> userInfo.email,
     role |-> userInfo.role, provider |-> "credentials"]

\* mockSession with a lifetime that depends on the role.
MockSessionRoleLifetime(mockUser, ms) ==
    [access_token |-> "mock-access-token",
     expires_at |-> EpochSeconds(ms)
                    + (IF mockUser.role = "admin" THEN 2 ELSE 1) * SessionLifetime,
     user |-> mockUser]

\* mockSession (lines 157-164)
MockSession(mockUser, ms) ==
    [access_token |-> "mock-access-token",
     expires_at |-> EpochSeconds(ms) + SessionLifetime,
     user |-> mockUser]

\* signInWithCredentials leaving the user to a later notification.
SignedInUserNotSet(mockUser) == user

\* setUser(mockUser) (line 171): the user in memory when the function returns.
SignedInUser(mockUser) == mockUser

(***************************************************************************)
(* LoginPage.handleSubmit, credentials mode           login/page.tsx:30-55 *)
(***************************************************************************)
\* The check looking at the username only.
MissingInputUsernameOnly(u, p) == u = ""

\* !username || !password (line 35): the empty string is the falsy string.
MissingInput(u, p) == u = "" \/ p = ""

\* handleSubmit showing nothing when the login failed.
LoginToastSilentFailure(error) ==
    IF error = "null" THEN "Welcome back, admin!" ELSE "none"

\* The toast handleSubmit shows for the { error } it got (lines 44-49).
LoginToast(error) ==
    IF error = "null" THEN "Welcome back, admin!" ELSE "Login failed: " \o error

\* From the submit to the return on empty input, or to the await of
\* signInWithCredentials' rpc.  The form is on screen while ProtectedRoute
\* renders LoginPage; one rpc is in flight at a time.
HandleSubmit(u, p) ==
    /\ view = "login"
    /\ loginPc = "idle"
    /\ IF MissingInput(u, p)
       THEN /\ toast' = "Please fill in username and password"
            /\ Did("handleSubmit", "rejected")
            /\ UNCHANGED loginVars
       ELSE /\ isLoading' = TRUE
            /\ loginPc' = "awaitRpc"
            /\ loginArgs' = <<u, p>>
            /\ Did("handleSubmit", "called")
            /\ toast' = "none"
    /\ issued' = {}
    /\ UNCHANGED <<authVars, storeVars, dateNow, credRow, initPc, pass,
                   getSessionCalls, signOutPc, route, view, dashVars, written>>
    /\ UNCHANGED voiceVars

\* signInWithCredentials resumed after `await supabase.rpc(...)`, and then
\* handleSubmit resumed after `await signInWithCredentials(...)`.
SignInReturn(r) ==
    /\ loginPc = "awaitRpc"
    /\ LET error == SignInError(r) IN
       /\ DidAt("signInWithCredentials", RpcKind(r), storedSession.val.expires_at)
       /\ IF error = "null"
          THEN LET mockUser == MockUser(r.data[1])
                   mockSession == MockSession(mockUser, dateNow)
               IN /\ storedUser' = SetItem(storedUser, JSONStringify(mockUser))
                  /\ storedSession' =
                         SetItem(storedSession, JSONStringify(mockSession))
                  /\ user' = SignedInUser(mockUser)
                  /\ session' = mockSession
                  /\ written' = [id |-> mockUser.id, role |-> mockUser.role,
                                  expires_at |-> mockSession.expires_at]
                  /\ toast' = LoginToast(error)
                  /\ Commit(loading, user', "/")
          ELSE /\ toast' = LoginToast(error)
               /\ Commit(loading, user, route)
               /\ UNCHANGED <<user, session, storeVars, written>>
    /\ isLoading' = FALSE
    /\ loginPc' = "idle"
    /\ loginArgs' = <<"", "">>
    /\ UNCHANGED <<loading, dateNow, credRow, initPc, pass, getSessionCalls,
                   signOutPc>>
    /\ UNCHANGED voiceVars

(***************************************************************************)
(* LoginPage.handleSubmit, email mode (login/page.tsx:56-95) over signIn   *)
(* (AuthContext.tsx:99-110) and signUp (AuthContext.tsx:181-195)           *)
(***************************************************************************)
\* What the provider's auth calls do: answer without an error, answer with
\* one, or throw.
AuthCallResults == {"ok", "error", "throw"}

\* signIn, signUp and resetPassword hand back {error}: the provider's error,
\* or the caught exception.
AuthCallError(r) == IF r = "ok" THEN "null" ELSE "error"

\* handleSubmit in email mode, from the submit to its end.  With a field
\* empty it returns at once.  Otherwise it awaits signUp or signIn, which
\* await the provider and hand back {error}; neither piece reads or writes
\* user, session or loading, so the two pieces are taken as one step.  A
\* successful signIn is followed by router.push('/').
HandleSubmitEmail(isSignUp, filled, r) ==
    /\ view = "login"
    /\ loginPc = "idle"
    /\ LET error == AuthCallError(r) IN
       IF ~filled
       THEN /\ toast' = "Please fill in all fields"
            /\ Did("handleSubmitEmail", "rejected")
            /\ Commit(loading, user, route)
       ELSE IF isSignUp
       THEN /\ toast' = IF error = "null" THEN "Account created successfully!"
                                          ELSE "Sign up failed"
            /\ Did("signUp", error)
            /\ Commit(loading, user, route)
       ELSE /\ toast' = IF error = "null" THEN "Welcome back!"
                                          ELSE "Sign in failed"
            /\ Did("signIn", error)
            /\ Commit(loading, user, IF error = "null" THEN "/" ELSE route)
    /\ UNCHANGED <<authVars, storeVars, dateNow, credRow, initPc, pass,
                   getSessionCalls, loginVars, signOutPc, written>>
    /\ UNCHANGED voiceVars

\* resetPassword (AuthContext.tsx:217-227), from its call to its return:
\* it awaits the provider and hands back {error}.
ResetPassword(r) ==
    /\ ~loading
    /\ Did("resetPassword", AuthCallError(r))
    /\ toast' = "none"
    /\ issued' = {}
    /\ UNCHANGED <<authVars, storeVars, dateNow, credRow, initPc, pass,
                   getSessionCalls, loginVars, signOutPc, route, view, dashVars,
                   written>>
    /\ UNCHANGED voiceVars

(***************************************************************************)
(* signOut (AuthContext.tsx:197-215) under AuthButton.handleSignOut        *)
(* (AuthButton.tsx:11-23)                                                  *)
(***************************************************************************)
SignOutResults == {"ok", "error", "throw"}

\* signOut removing the user entry only.
HandleSignOutUserKeyOnly ==
    /\ ~loading
    /\ signOutPc = "idle"
    /\ storedUser' = AbsentUserEntry
    /\ UNCHANGED storedSession
    /\ signOutPc' = "awaitSignOut"
    /\ Did("signOut", IF last.op = "signOutReturn" THEN "after " \o last.res
                       ELSE "called")
    /\ toast' = "none"
    /\ issued' = {}
    /\ written' = NotWritten
    /\ UNCHANGED <<authVars, dateNow, credRow, initPc, pass, getSessionCalls,
                   loginVars, route, view, dashVars>>
    /\ UNCHANGED voiceVars

\* signOut from its call to `await supabase.auth.signOut()`.  AuthButton
\* calls it from the protected pages; useAuth() hands it to every component
\* under AuthProvider, and those are rendered once loading is false.
HandleSignOut ==
    /\ ~loading
    /\ signOutPc = "idle"
    /\ storedUser' = AbsentUserEntry
    /\ storedSession' = AbsentSessionEntry
    /\ signOutPc' = "awaitSignOut"
    /\ Did("signOut", IF last.op = "signOutReturn" THEN "after " \o last.res
                       ELSE "called")
    /\ toast' = "none"
    /\ issued' = {}
    /\ written' = NotWritten
    /\ UNCHANGED <<authVars, dateNow, credRow, initPc, pass, getSessionCalls,
                   loginVars, route, view, dashVars>>
    /\ UNCHANGED voiceVars

\* signOut resumed after the await, then handleSignOut resumed.
SignOutReturn(r) ==
    /\ signOutPc = "awaitSignOut"
    /\ signOutPc' = "idle"
    /\ IF r = "throw"
       THEN UNCHANGED <<user, session>>
       ELSE user' = NoUser /\ session' = NoSession
    /\ toast' = IF r = "ok" THEN "Signed out successfully" ELSE "Sign out failed"
    /\ Did("signOutReturn", r)
    /\ Commit(loading, user', route)
    /\ UNCHANGED <<loading, storeVars, dateNow, credRow, initPc, pass,
                   getSessionCalls, loginVars, written>>
    /\ UNCHANGED voiceVars

(***************************************************************************)
(* Dashboard.refreshDashboard                         page.tsx:463-480     *)
(***************************************************************************)
\* setInterval(refreshDashboard, 30000) fires: refreshDashboard starts and
\* testDatabaseConnection issues its query (page.tsx:92).
IntervalFires ==
    /\ interval
    /\ InFlight < MaxInFlight
    /\ nTesting' = nTesting + 1
    /\ issued' = {Issue(loading, user)}
    /\ toast' = "none"
    /\ Did("refreshDashboard", "started")
    /\ UNCHANGED <<authVars, storeVars, dateNow, credRow, initPc, pass,
                   getSessionCalls, loginVars, signOutPc, route, view, interval,
                   nFetching, written>>
    /\ UNCHANGED voiceVars

\* refreshDashboard resumed after `await testDatabaseConnection()`: when
\* connected it calls fetchDashboardStats, fetchRecentInteractions,
\* fetchRecentErrors and fetchAnalyticsData, each of which issues its first
\* query at once (lines 470-476); otherwise it checks the services only.
TestDatabaseConnectionReturn(isConnected) ==
    /\ nTesting > 0
    /\ nTesting' = nTesting - 1
    /\ IF isConnected
       THEN /\ nFetching' = nFetching + 1
            /\ issued' = {Issue(loading, user)}
       ELSE /\ issued' = {}
            /\ UNCHANGED nFetching
    /\ toast' = "none"
    /\ Did("refreshDashboard", IF isConnected THEN "connected" ELSE "offline")
    /\ UNCHANGED <<authVars, storeVars, dateNow, credRow, initPc, pass,
                   getSessionCalls, loginVars, signOutPc, route, view, interval,
                   written>>
    /\ UNCHANGED voiceVars

\* The fetch functions resumed after their first query: they issue their
\* next queries (e.g. page.tsx:395, 404) and finish.
FetchReturn ==
    /\ nFetching > 0
    /\ nFetching' = nFetching - 1
    /\ issued' = {Issue(loading, user)}
    /\ toast' = "none"
    /\ Did("refreshDashboard", "fetched")
    /\ UNCHANGED <<authVars, storeVars, dateNow, credRow, initPc, pass,
                   getSessionCalls, loginVars, signOutPc, route, view, interval,
                   nTesting, written>>
    /\ UNCHANGED voiceVars

(***************************************************************************)
(* The environment: the clock and the page.                                *)
(***************************************************************************)
\* Time passes, to a later sampled instant.
Tick(t) ==
    /\ t > dateNow
    /\ dateNow' = t
    /\ Did("tick", "none")
    /\ toast' = "none"
    /\ issued' = {}
    /\ UNCHANGED <<authVars, storeVars, credRow, initPc, pass, getSessionCalls,
                   loginVars, signOutPc, route, view, dashVars, written>>
    /\ UNCHANGED voiceVars

\* A fresh start (page load): every component state is back at its useState
\* initial value, pending continuations are gone, localStorage is kept.
Reload ==
    /\ initPc # "start"
    /\ user' = NoUser
    /\ session' = NoSession
    /\ loading' = TRUE
    /\ initPc' = "start"
    /\ pass' = "none"
    /\ getSessionCalls' = 0
    /\ loginPc' = "idle"
    /\ loginArgs' = <<"", "">>
    /\ isLoading' = FALSE
    /\ signOutPc' = "idle"
    /\ toast' = "none"
    /\ view' = ProtectedRoute(TRUE, NoUser)
    /\ interval' = FALSE
    /\ nTesting' = 0
    /\ nFetching' = 0
    /\ issued' = {}
    /\ Did("reload", "none")
    /\ UNCHANGED <<storeVars, dateNow, credRow, route, written>>
    /\ UNCHANGED voiceVars

(***************************************************************************)
(* GET /api/elevenlabs/voices                          part_003:40-128     *)
(***************************************************************************)
\* Voices are told apart by their voice_id; 'v1' sorts before 'v2' by name.
VoiceIds == {"v1", "v2"}
\* The voices a page of the upstream API may carry.
PageVoices == {<<>>, <<"v1">>, <<"v2">>}

\* What the upstream API answers to one page request: 200 with voices and
\* with or without a next_page_token, 401, another status that is not ok,
\* or no answer the route can read (fetch or response.json() throws).
PageAnswers ==
    [kind : {"ok"}, voices : PageVoices, token : BOOLEAN]
    \cup [kind : {"401", "error", "throw"}, voices : {<<>>}, token : {FALSE}]

\* The answers to the page requests of one call of the route, in order: a
\* further request is made, and answered, exactly after a page that was
\* read and carries a next_page_token.
Upstreams ==
    {ups \in UNION {[1..n -> PageAnswers] : n \in 1..MaxPages} :
        \A i \in 1..Len(ups) :
            (i < Len(ups)) <=> (ups[i].kind = "ok" /\ ups[i].token)}

\* NextResponse.json(body, {status}); requests counts the upstream requests.
RouteResponse(status, success, vs, requests) ==
    [status |-> status, success |-> success, voices |-> vs,
     total |-> Len(vs), requests |-> requests]

\* The loop without `allVoices = [...allVoices, ...data.voices]`: every page
\* replaces the pages before it.
RECURSIVE FetchPagesLastOnly(_, _, _)
FetchPagesLastOnly(ups, i, allVoices) ==
    LET data == ups[i] IN
    IF data.kind = "401" THEN RouteResponse(401, FALSE, <<>>, i)
    ELSE IF data.kind # "ok" THEN RouteResponse(500, FALSE, <<>>, i)
    ELSE IF data.token THEN FetchPagesLastOnly(ups, i + 1, data.voices)
    ELSE RouteResponse(200, TRUE, data.voices, i)

\* The do-while loop (lines 60-95) from its i-th request on, and what
\* follows it (lines 99-113, 115-124).
RECURSIVE FetchPages(_, _, _)
FetchPages(ups, i, allVoices) ==
    LET data == ups[i] IN
    IF data.kind = "401" THEN RouteResponse(401, FALSE, <<>>, i)
    ELSE IF data.kind # "ok" THEN RouteResponse(500, FALSE, <<>>, i)
    ELSE IF data.token THEN FetchPages(ups, i + 1, allVoices \o data.voices)
    ELSE RouteResponse(200, TRUE, allVoices \o data.voices, i)

\* GET (lines 40-128)
GET(key, ups) ==
    IF ~key THEN RouteResponse(500, FALSE, <<>>, 0)
    ELSE FetchPages(ups, 1, <<>>)

(***************************************************************************)
(* The voices page (ElevenLabsPage)                  page.tsx:1908-2160    *)
(***************************************************************************)
NoResponse == RouteResponse(0, FALSE, <<>>, 0)

\* .order('name'): the rows of the table as the page reads them.
OrderByName(ids) ==
    (IF "v1" \in ids THEN <<"v1">> ELSE <<>>)
    \o (IF "v2" \in ids THEN <<"v2">> ELSE <<>>)

\* fetchLocalVoices (lines 1935-2003), run by the mount effect (2156-2160)
\* when there is a Supabase client: the rows of the table, when it reads
\* some, become the displayed voices; then setLoading(false).
FetchLocalVoices(ok) ==
    /\ voicesPc = "mount"
    /\ supabase
    /\ voices' = IF ok /\ dbVoices # {} THEN OrderByName(dbVoices) ELSE voices
    /\ voicesPc' = "idle"
    /\ voicesToast' = {}
    /\ UNCHANGED <<apiKey, supabase, upstream, closureVoices, response, pending,
                   upserts, successCount, errorCount, dbVoices>>
    /\ UNCHANGED gateVars

\* fetchAndSyncVoices (lines 2030-2037) from the click to the await of
\* fetch('/api/elevenlabs/voices').  The button is disabled while loading.
\* The function is the one of the render that is on screen: the `voices` it
\* and its syncVoicesToSupabase read are that render's.
FetchAndSyncVoices(ups) ==
    /\ voicesPc = "idle"
    /\ upstream' = ups
    /\ closureVoices' = voices
    /\ voicesPc' = "awaitFetch"
    /\ response' = NoResponse
    /\ pending' = <<>>
    /\ upserts' = <<>>
    /\ successCount' = 0
    /\ errorCount' = 0
    /\ voicesToast' = {}
    /\ UNCHANGED <<apiKey, supabase, voices, dbVoices>>
    /\ UNCHANGED gateVars

\* fetchAndSyncVoices resumed with the route's response (lines 2039-2067),
\* and on success syncVoicesToSupabase up to its first upsert (2078-2106).
VoicesFetchReturn ==
    /\ voicesPc = "awaitFetch"
    /\ LET data == GET(apiKey, upstream) IN
       /\ response' = data
       /\ IF data.status = 401
          THEN /\ voicesToast' = {"Invalid ElevenLabs API key configuration"}
               /\ voicesPc' = "idle"
               /\ UNCHANGED <<voices, pending, upserts>>
          ELSE IF data.status = 500
          THEN /\ voicesToast' = {"Server configuration error"}
               /\ voicesPc' = "idle"
               /\ UNCHANGED <<voices, pending, upserts>>
          ELSE /\ voices' = data.voices
               /\ voicesToast' = {"Successfully fetched voices"}
               /\ IF ~supabase \/ Len(closureVoices) = 0
                  THEN /\ voicesPc' = "idle"
                       /\ UNCHANGED <<pending, upserts>>
                  ELSE /\ pending' = closureVoices
                       /\ upserts' = <<Head(closureVoices)>>
                       /\ voicesPc' = "awaitUpsert"
    /\ UNCHANGED <<apiKey, supabase, upstream, closureVoices, successCount,
                   errorCount, dbVoices>>
    /\ UNCHANGED gateVars

\* syncVoicesToSupabase resumed after the upsert of one voice (lines
\* 2106-2128): it counts the outcome and upserts the next voice, or ends
\* with its toasts (2131-2142) and fetchAndSyncVoices ends with it.
UpsertReturn(ok) ==
    /\ voicesPc = "awaitUpsert"
    /\ successCount' = IF ok THEN successCount + 1 ELSE successCount
    /\ errorCount' = IF ok THEN errorCount ELSE errorCount + 1
    /\ dbVoices' = IF ok THEN dbVoices \cup {Head(pending)} ELSE dbVoices
    /\ pending' = Tail(pending)
    /\ IF Tail(pending) # <<>>
       THEN /\ upserts' = Append(upserts, Head(Tail(pending)))
            /\ voicesToast' = {}
            /\ UNCHANGED voicesPc
       ELSE /\ voicesPc' = "idle"
            /\ voicesToast' =
                  (IF successCount' > 0 THEN {"Successfully synced voices"} ELSE {})
                  \cup (IF errorCount' > 0 THEN {"voices failed to sync"} ELSE {})
            /\ UNCHANGED upserts
    /\ UNCHANGED <<apiKey, supabase, upstream, voices, closureVoices, response>>
    /\ UNCHANGED gateVars

\* The voices page before its mount effect has run.
VoicesPageStart ==
    /\ upstream = <<>>
    /\ voices = <<>>
    /\ voicesPc = "mount"
    /\ closureVoices = <<>>
    /\ response = NoResponse
    /\ pending = <<>>
    /\ upserts = <<>>
    /\ successCount = 0
    /\ errorCount = 0
    /\ voicesToast = {}

(***************************************************************************)
(* The specification.                                                      *)
(***************************************************************************)
\* localStorage at the first start: nothing, or entries that do not parse.
InitialStorage ==
    {<<AbsentUserEntry, AbsentSessionEntry>>,
     <<CorruptUserEntry, CorruptSessionEntry>>}

\* The components at a fresh start: their useState initial values, nothing
\* pending.
FreshStart ==
    /\ user = NoUser
    /\ session = NoSession
    /\ loading = TRUE
    /\ initPc = "start"
    /\ getSessionCalls = 0
    /\ loginPc = "idle"
    /\ loginArgs = <<"", "">>
    /\ isLoading = FALSE
    /\ signOutPc = "idle"
    /\ toast = "none"
    /\ route \in {"/", "/login"}
    /\ view = ProtectedRoute(TRUE, NoUser)
    /\ interval = FALSE
    /\ nTesting = 0
    /\ nFetching = 0
    /\ issued = {}
    /\ pass = "none"
    /\ written = NotWritten
    /\ last = [op |-> "start", res |-> "none", exp |-> 0, was |-> NoUser.id]
    /\ VoicesPageStart
    /\ apiKey = TRUE
    /\ supabase = TRUE
    /\ dbVoices = {}

Init ==
    /\ \E st \in InitialStorage : storedUser = st[1] /\ storedSession = st[2]
    /\ dateNow = 0
    /\ credRow \in [role : Roles, is_active : BOOLEAN]
    /\ FreshStart

Next ==
    \/ GetInitialSession
    \/ \E r \in GetSessionResults : GetSessionReturn(r)
    \/ \E s \in {NoSession} \cup FedSessions : OnAuthStateChange(s)
    \/ \E u \in Usernames, p \in Passwords : HandleSubmit(u, p)
    \/ \E r \in RpcResults(loginArgs[1], loginArgs[2]) : SignInReturn(r)
    \/ \E isSignUp \in BOOLEAN, filled \in BOOLEAN, r \in AuthCallResults :
           HandleSubmitEmail(isSignUp, filled, r)
    \/ \E r \in AuthCallResults : ResetPassword(r)
    \/ HandleSignOut
    \/ \E r \in SignOutResults : SignOutReturn(r)
    \/ IntervalFires
    \/ \E c \in BOOLEAN : TestDatabaseConnectionReturn(c)
    \/ FetchReturn
    \/ \E t \in ClockPoints : Tick(t)
    \/ Reload

Spec == Init /\ [][Next]_vars

\* The voices page, opened by the signed-in federated user; the environment
\* has or lacks the API key and the Supabase configuration, and the table
\* holds any of the voices.
VoicesInit ==
    /\ user = FedUser
    /\ session = FedSession
    /\ loading = FALSE
    /\ storedUser = AbsentUserEntry
    /\ storedSession = AbsentSessionEntry
    /\ dateNow = 0
    /\ credRow = [role |-> "admin", is_active |-> TRUE]
    /\ initPc = "done"
    /\ getSessionCalls = 1
    /\ loginPc = "idle"
    /\ loginArgs = <<"", "">>
    /\ isLoading = FALSE
    /\ signOutPc = "idle"
    /\ toast = "none"
    /\ route = "/"
    /\ view = ProtectedRoute(FALSE, FedUser)
    /\ interval = FALSE
    /\ nTesting = 0
    /\ nFetching = 0
    /\ issued = {}
    /\ pass = "absent"
    /\ written = NotWritten
    /\ last = [op |-> "getSessionReturn", res |-> "session", exp |-> 0,
               was |-> NoUser.id]
    /\ VoicesPageStart
    /\ apiKey \in BOOLEAN
    /\ supabase \in BOOLEAN
    /\ dbVoices \in SUBSET VoiceIds

VoicesNext ==
    \/ \E ok \in BOOLEAN : FetchLocalVoices(ok)
    \/ \E ups \in Upstreams : FetchAndSyncVoices(ups)
    \/ VoicesFetchReturn
    \/ \E ok \in BOOLEAN : UpsertReturn(ok)

VoicesSpec == VoicesInit /\ [][VoicesNext]_vars

\* localStorage at a fresh start of a browser that was used before:
\* nothing, entries that do not parse, or the entries a credentials login
\* wrote at some earlier instant.
UsedStorage ==
    InitialStorage
    \cup {<<JSONStringify(MockUser(AdminRecord)),
            JSONStringify(MockSession(MockUser(AdminRecord), t))>> :
              t \in ClockPoints}

\* A fresh start at any instant, over any such storage.
LiveInit ==
    /\ credRow \in [role : Roles, is_active : BOOLEAN]
    /\ \E st \in UsedStorage : storedUser = st[1] /\ storedSession = st[2]
    /\ dateNow \in ClockPoints
    /\ FreshStart

\* What can run while the gate is initializing: the initial pass, a
\* notification, the clock and a fresh start.  Every other handler belongs
\* to a component that is rendered only once loading is false, or resumes
\* a call such a component made (InitializingIsQuiet).
LiveNext ==
    \/ GetInitialSession
    \/ \E r \in GetSessionResults : GetSessionReturn(r)
    \/ \E s \in {NoSession} \cup FedSessions : OnAuthStateChange(s)
    \/ \E t \in ClockPoints : Tick(t)
    \/ Reload

\* The effect calls getInitialSession on mount (line 83), without waiting
\* for anything; and the provider's getSession is taken to settle: its
\* promise resolves or rejects in the end, unless the page is gone first.
LiveSpec ==
    /\ LiveInit /\ [][LiveNext]_vars
    /\ WF_vars(GetInitialSession)
    /\ WF_vars(\E r \in GetSessionResults : GetSessionReturn(r))

(***************************************************************************)
(* Properties.                                                             *)
(***************************************************************************)
\* A handler piece of getInitialSession's synchronous part runs in this step.
InitialCheckStep == initPc = "start" /\ initPc' # "start"
\* Both persisted entries are there and parse.
PersistedParsable ==
    /\ Present(storedUser) /\ Present(storedSession)
    /\ storedUser.kind = "json" /\ storedSession.kind = "json"
NowSeconds == dateNow \div 1000

\* C1: ProtectedRoute shows exactly one of three views, decided by the gate's
\* state: the loading indicator while loading, else the login page while
\* there is no user, else its children; so the children are on screen only
\* with loading false and a user present.
C1_OneOfThreeViews ==
    /\ view \in {"loading", "login", "children"}
    /\ loading => view = "loading"
    /\ (~loading /\ user = NoUser) => view = "login"
    /\ (~loading /\ user # NoUser) => view = "children"
    /\ view = "children" => (~loading /\ user # NoUser)

\* The children are rendered, and the login page was rendered before a login.
C1_Witness ==
    /\ view = "children" /\ ~loading /\ user # NoUser
    /\ last.op = "signInWithCredentials"

\* C2: every database fetch is issued with loading false and a user present.
C2_NoFetchWhileGated == \A f \in issued : ~f.loading /\ f.authed

\* C3: a resolution pass that finds no valid persisted session and no
\* federated session (none, an error, a throw, or a throw while parsing the
\* persisted entries) ends with user and session absent and loading false,
\* and the login page rendered.
C3_FailClosed ==
    (\/ last.op = "getInitialSession" /\ last.res = "throw"
     \/ last.op = "getSessionReturn" /\ last.res \in {"none", "error", "throw"})
    => /\ user = NoUser
       /\ session = NoSession
       /\ ~loading
       /\ initPc = "done"
       /\ view = "login"

\* The pass failed by an error of getSession after a notification had
\* signed a federated user in.
C3_Witness ==
    /\ last.op = "getSessionReturn" /\ last.res = "error"
    /\ user = NoUser /\ view = "login"

\* C4: on a fresh start with both persisted entries present and expires_at
\* greater than the current epoch second, the pass sets user and session
\* from the entries, sets loading false and ends without calling getSession.
C4_PersistedFirst ==
    [][(InitialCheckStep /\ PersistedParsable
        /\ storedSession.val.expires_at > NowSeconds)
       => /\ user' = storedUser.val
          /\ session' = storedSession.val
          /\ ~loading'
          /\ initPc' = "done"
          /\ getSessionCalls' = 0
          /\ UNCHANGED storeVars]_vars

\* A fresh start restored the credentials session without a getSession call.
C4_Witness ==
    /\ last.op = "getInitialSession" /\ last.res = "persisted"
    /\ last.exp > NowSeconds
    /\ user # NoUser /\ user = storedUser.val /\ getSessionCalls = 0
    /\ view = "children"

\* C5: on a fresh start with a persisted session that expired in the past,
\* the pass removes both entries and then calls getSession, showing nothing;
\* when getSession reports no session the pass ends with no user, loading
\* false and the login page rendered, again without any toast.
C5_ExpiredFallsThrough ==
    [][/\ (InitialCheckStep /\ PersistedParsable
           /\ storedSession.val.expires_at < NowSeconds)
          => /\ storedUser' = AbsentUserEntry
             /\ storedSession' = AbsentSessionEntry
             /\ getSessionCalls' = getSessionCalls + 1
             /\ initPc' = "awaitGetSession"
             /\ pass' = "expired"
             /\ toast' = "none"
             /\ UNCHANGED authVars
       /\ (pass = "expired" /\ initPc = "awaitGetSession" /\ initPc' = "done"
           /\ last'.res = "none")
          => /\ user' = NoUser
             /\ ~loading'
             /\ view' = "login"
             /\ toast' = "none"]_vars

\* An expired pass ended at the login page.
C5_Witness ==
    /\ pass = "expired" /\ initPc = "done"
    /\ last.op = "getSessionReturn" /\ last.res = "none"
    /\ view = "login" /\ ~Present(storedUser) /\ ~Present(storedSession)

\* C6: a persisted session whose expires_at equals the current epoch second
\* is expired: the entries are removed and the persisted path authenticates
\* nobody (the pass goes on to getSession).
C6_EqualIsExpired ==
    [][(InitialCheckStep /\ PersistedParsable
        /\ storedSession.val.expires_at = NowSeconds)
       => /\ storedUser' = AbsentUserEntry
          /\ storedSession' = AbsentSessionEntry
          /\ user' = NoUser /\ session' = NoSession
          /\ initPc' = "awaitGetSession"]_vars

\* The check ran in the very second the session expired in.
C6_Witness ==
    /\ last.op = "getInitialSession" /\ last.res = "expired"
    /\ last.exp = NowSeconds
    /\ ~Present(storedSession) /\ user = NoUser

\* C7: after a credentials login and no sign-out since, a fresh start before
\* expires_at is Authenticated with the id and role written at login; a
\* fresh start at or after expires_at treats the session as absent and
\* leaves no persisted entry.
C7_RoundTrip ==
    [][(InitialCheckStep /\ written # NotWritten)
       => IF NowSeconds < written.expires_at
          THEN /\ user' # NoUser /\ session' # NoSession /\ ~loading'
               /\ user'.id = written.id
               /\ user'.role = written.role
               /\ session'.user = user'
          ELSE /\ storedUser' = AbsentUserEntry
               /\ storedSession' = AbsentSessionEntry
               /\ user' = NoUser /\ session' = NoSession
               /\ initPc' = "awaitGetSession"]_vars

\* A reload after a login restored the identity of that login.
C7_Witness ==
    /\ last.op = "getInitialSession" /\ last.res = "persisted"
    /\ written # NotWritten /\ user.id = written.id /\ user.role = written.role

\* C8: when the store returns no matching active record (no rows, or null),
\* signInWithCredentials returns the invalid-credentials error and leaves
\* user, session and both persisted entries as they were; and the store
\* returns a record only for the password of an active user.
C8_NoMatchNoSession ==
    [][/\ (loginPc = "idle" /\ loginPc' = "awaitRpc")
          => UNCHANGED <<user, session, storedUser, storedSession>>
       /\ (loginPc = "awaitRpc" /\ loginPc' = "idle")
          => /\ last'.res \in {"empty", "null"}
                => /\ toast' = "Login failed: Invalid username or password"
                   /\ UNCHANGED <<user, session, storedUser, storedSession>>
             /\ last'.res = "match"
                => /\ loginArgs = <<"admin", AdminPassword>>
                   /\ credRow.is_active]_vars

\* A wrong password was rejected.
C8_Witness ==
    /\ last.op = "signInWithCredentials" /\ last.res = "empty"
    /\ toast = "Login failed: Invalid username or password"
    /\ user = NoUser /\ ~Present(storedSession)

\* C9: when the store call itself fails (an error, or a throw),
\* signInWithCredentials returns the unavailable error ("Authentication
\* failed"), not an invalid-credentials one.
C9_StoreFailureIsUnavailable ==
    (last.op = "signInWithCredentials" /\ last.res \in {"error", "throw"})
    => toast = "Login failed: Authentication failed"

\* C10: after a successful verification the role of the identity, in memory
\* and in localStorage, is the role of the store's record.
C10_RoleCarriedExactly ==
    (last.op = "signInWithCredentials" /\ last.res = "match")
    => /\ user.role = credRow.role
       /\ session.user.role = credRow.role
       /\ storedUser.kind = "json" /\ storedUser.val.role = credRow.role
       /\ storedSession.kind = "json" /\ storedSession.val.user.role = credRow.role

\* A login of a record whose role is not 'admin'.
C10_Witness ==
    /\ last.op = "signInWithCredentials" /\ last.res = "match"
    /\ credRow.role = "user" /\ user.role = "user"

\* The credentials sessions of a state: the one in memory and the persisted one.
CredentialsSessions ==
    {s \in {session} : s.user.provider = "credentials"}
    \cup {e.val : e \in {x \in {storedSession} : x.kind = "json"}}

\* C11: a session created by signInWithCredentials expires 3600 seconds after
\* the second of its creation, whatever the identity and the role; so every
\* credentials session of every reachable state, in memory or persisted, was
\* created 3600 seconds before its expires_at, at a second that is not in
\* the future, and expires after it was created.
C11_LifetimeIsOneHour ==
    /\ (last.op = "signInWithCredentials" /\ last.res = "match")
         => /\ session.expires_at = NowSeconds + 3600
            /\ storedSession.val.expires_at = NowSeconds + 3600
            /\ session.expires_at > NowSeconds
    /\ \A s \in CredentialsSessions :
         /\ s.expires_at - 3600 \in 0..NowSeconds
         /\ s.expires_at > s.expires_at - 3600

\* An admin has just logged in, later than the epoch.
C11_Witness ==
    /\ last.op = "signInWithCredentials" /\ last.res = "match"
    /\ user.role = "admin"
    /\ NowSeconds > 0
    /\ session.expires_at = NowSeconds + 3600

\* The identity and the session a login of the stored admin record makes now.
LoginIdentity ==
    [id |-> "admin-id", email |-> "admin@dreamweave.local",
     role |-> credRow.role, provider |-> "credentials"]
LoginSession ==
    [access_token |-> "mock-access-token", expires_at |-> NowSeconds + 3600,
     user |-> LoginIdentity]

\* C12: a successful signInWithCredentials leaves under the two storage keys
\* the JSON text of exactly this login's identity and session, whatever was
\* stored there before: nothing, text that does not parse, an older login
\* that is still valid, or an expired session.
C12_EntriesReplaced ==
    (last.op = "signInWithCredentials" /\ last.res = "match")
        => /\ storedUser = [kind |-> "json", val |-> LoginIdentity]
           /\ storedSession = [kind |-> "json", val |-> LoginSession]

\* The login replaced the entries of an older login whose session had
\* expired, and the persisted session is another one than before.
C12_Witness ==
    /\ last.op = "signInWithCredentials" /\ last.res = "match"
    /\ last.exp # 0 /\ last.exp <= NowSeconds
    /\ storedSession.val.expires_at # last.exp
    /\ storedSession = [kind |-> "json", val |-> LoginSession]

\* C13: when signInWithCredentials has returned { error: null }, user and
\* session in memory are this login's, with no further event; the gate is
\* initialized, so the render that follows shows the protected children.
C13_InMemoryAtReturn ==
    (last.op = "signInWithCredentials" /\ last.res = "match")
        => /\ user = LoginIdentity
           /\ session = LoginSession
           /\ ~loading
           /\ view = "children"

\* The login came back to a gate that was initialized and had no user.
C13_Witness ==
    /\ last.op = "signInWithCredentials" /\ last.res = "match"
    /\ last.was = NoUser.id
    /\ user = LoginIdentity /\ view = "children"

\* C14: when signOut has completed, whatever the provider's signOut did
\* (answered without an error, answered with one, or threw), both persisted
\* credentials entries are absent and user and session in memory are null.
C14_SignOutClearsAll ==
    last.op = "signOutReturn"
        => /\ ~Present(storedUser) /\ ~Present(storedSession)
           /\ user = NoUser /\ session = NoSession

\* What signOut is to clear.
IdentityState == <<user, session, storedUser, storedSession>>
Unauthenticated == user = NoUser /\ session = NoSession
NoEntries == ~Present(storedUser) /\ ~Present(storedSession)

\* signOut called with no user and no session: its first piece removes the
\* entries and leaves the memory alone, and its second piece, when nothing
\* ran in between, ends with no user, no session and no entry.
SignOutWhenUnauthenticated ==
    /\ (Unauthenticated /\ last'.op = "signOut")
          => (Unauthenticated' /\ NoEntries')
    /\ (Unauthenticated /\ last.op = "signOut" /\ last'.op = "signOutReturn")
          => (Unauthenticated' /\ NoEntries')

\* A second signOut called directly after the first one returned, and
\* returning with nothing in between, ends in the state the first one left.
SignOutTwiceInARow ==
    (last.op = "signOut" /\ last.res # "called" /\ last'.op = "signOutReturn")
        => IdentityState' = IdentityState

\* C15: signOut is idempotent: called with the gate Unauthenticated it leaves
\* user and session absent and no persisted entry, and two calls in a row
\* end in the same state as one call.
C15_SignOutIdempotent ==
    [][SignOutWhenUnauthenticated /\ SignOutTwiceInARow]_vars

\* C16: loading is true when the provider starts, and once it is false no
\* operation of the provider's life (a notification, signIn,
\* signInWithCredentials, signOut, signUp, resetPassword, or the end of the
\* initial pass) sets it back to true; only a fresh start, which begins a
\* new provider, shows it true again.
C16_LoadingNeverReentered ==
    /\ [](initPc = "start" => loading)
    /\ [][(~loading /\ initPc' # "start") => ~loading']_vars

\* Initialized, and a notification has been handled after the initial pass
\* had finished.
C16_Witness ==
    /\ ~loading /\ initPc = "done"
    /\ last.op = "onAuthStateChange"
    /\ pass # "none"

\* C17: until the initial pass (the persisted-session check, then
\* getSession) has finished, loading stays true and no identity is written,
\* also when a notification arrives while getSession is pending.
C17_SettledOnceBeforeInitialized ==
    initPc # "done" => (loading /\ user = NoUser /\ session = NoSession)

\* C18: directly after a notification has been handled, the session in
\* memory is the notification's session and the user is that session's
\* user, both null when the notification carries no session, whatever the
\* state was before: the last notification wins.
C18_LastNotificationWins ==
    last.op = "onAuthStateChange"
        => /\ last.res = "none" => (session = NoSession /\ user = NoUser)
           /\ last.res = "session" => (session = FedSession /\ user = FedUser)
           /\ last.res \in {"none", "session"}
           /\ ~loading

\* A notification with a session arrived while a credentials user was
\* signed in, after the initial pass.
C18_Witness ==
    /\ last.op = "onAuthStateChange" /\ last.res = "session"
    /\ last.was = "admin-id"
    /\ initPc = "done"
    /\ user = FedUser /\ session = FedSession

\* C19: the initial pass has no cancellation and no staleness check: when a
\* notification has settled the state while getSession was pending (loading
\* is already false), the pass still writes what getSession resolved with,
\* the session and its user or null for both, over the newer state.
C19_StaleResultOverwrites ==
    [][(initPc = "awaitGetSession" /\ ~loading /\ last'.op = "getSessionReturn")
        => /\ last'.res = "session"
                => (session' = FedSession /\ user' = FedUser)
           /\ last'.res # "session"
                => (session' = NoSession /\ user' = NoUser)]_vars

\* A notification had signed the federated user in while getSession was
\* pending; getSession then resolved without a session and the user is gone.
C19_Witness ==
    /\ last.op = "getSessionReturn" /\ last.res = "none"
    /\ last.was = FedUser.id
    /\ user = NoUser /\ session = NoSession
    /\ view = "login"

\* C20: when the federated user is signed in and the provider sends a
\* notification without a session (a sign-out), the gate has no user and no
\* session afterwards, and the render that follows shows the login page in
\* place of the protected children, whose periodic refresh is stopped.
C20_FederatedSignOutUnmounts ==
    (last.op = "onAuthStateChange" /\ last.res = "none"
       /\ last.was = FedUser.id)
        => /\ user = NoUser /\ session = NoSession
           /\ ~loading
           /\ view = "login"
           /\ ~interval

\* The sign-out notification arrived after the initial pass had signed the
\* federated user in.
C20_Witness ==
    /\ last.op = "onAuthStateChange" /\ last.res = "none"
    /\ last.was = FedUser.id
    /\ pass = "absent" /\ initPc = "done"
    /\ view = "login" /\ user = NoUser

\* The error notifications of a failed credentials login.
LoginFailureToasts ==
    {"Login failed: Invalid credentials",
     "Login failed: Invalid username or password",
     "Login failed: Authentication failed"}

\* C21: whenever signInWithCredentials ends without a session (the rpc gave
\* no rows, null, an error, or threw), handleSubmit shows an error
\* notification, navigates nowhere, leaves the rendered page and the identity
\* as they are, and ends with isLoading false and the form usable again.
C21_FailureCaughtAtLogin ==
    [][(loginPc = "awaitRpc" /\ last'.op = "signInWithCredentials"
          /\ last'.res # "match")
        => /\ toast' \in LoginFailureToasts
           /\ route' = route
           /\ view' = view
           /\ ~isLoading'
           /\ loginPc' = "idle"
           /\ UNCHANGED <<user, session, loading>>]_vars

\* The rpc threw: the login page is still there with the message.
C21_Witness ==
    /\ last.op = "signInWithCredentials" /\ last.res = "throw"
    /\ toast = "Login failed: Authentication failed"
    /\ view = "login" /\ ~isLoading /\ loginPc = "idle"

\* C22: signInWithCredentials is never called with an empty username or an
\* empty password: a credentials submission is either rejected with the
\* message, leaving the gate, the storage and the form as they are, or it
\* calls with both arguments non-empty; the arguments of a pending call are
\* never empty.
C22_NoCallWithEmptyInput ==
    /\ [](loginPc = "awaitRpc" => (loginArgs[1] # "" /\ loginArgs[2] # ""))
    /\ [][last'.op = "handleSubmit"
           => \/ /\ last'.res = "rejected"
                 /\ toast' = "Please fill in username and password"
                 /\ UNCHANGED <<user, session, loading, storedUser,
                                storedSession, loginPc, isLoading, view, route>>
              \/ /\ last'.res = "called"
                 /\ loginPc' = "awaitRpc"
                 /\ loginArgs'[1] # "" /\ loginArgs'[2] # ""]_vars

\* A submission was rejected while persisted entries were there.
C22_Witness ==
    /\ last.op = "handleSubmit" /\ last.res = "rejected"
    /\ toast = "Please fill in username and password"
    /\ loginPc = "idle" /\ Present(storedUser)

\* C23: a credentials session grants no access once 3600 seconds have passed
\* since the login: in no state is the user in memory a credentials user
\* whose session has expires_at at or before the current second while the
\* protected children are rendered.
C23_NoAccessAfterExpiry ==
    ~(/\ user.provider = "credentials"
      /\ session.expires_at <= NowSeconds
      /\ view = "children")

\* While loading is true the loading indicator is all that is rendered, and
\* no call of the login page, of signOut or of the Dashboard is pending.
InitializingIsQuiet ==
    loading => /\ view = "loading"
               /\ loginPc = "idle" /\ signOutPc = "idle"
               /\ ~interval /\ nTesting = 0 /\ nFetching = 0

\* C24: the gate always leaves Initializing.  With getSession settling in
\* the end, every fresh start is followed by the start of the initial pass,
\* and every state of a started pass with loading true is followed by a
\* state with loading false, where ProtectedRoute shows the login page or
\* the children, unless the page is loaded afresh before.
C24_LeavesInitializing ==
    /\ (initPc = "start") ~> (initPc # "start")
    /\ (loading /\ initPc # "start")
          ~> ((~loading /\ view \in {"login", "children"}) \/ initPc = "start")

\* The pass had to wait for getSession, which threw, and the gate is
\* initialized with the login page.
C24_Witness ==
    /\ last.op = "getSessionReturn" /\ last.res = "throw"
    /\ last.was = NoUser.id
    /\ ~loading /\ view = "login"

\* C25: fetchAndSyncVoices synchronises the voices it has just fetched: when
\* it has ended after a successful fetch of the list V, the upserts of its
\* sync step were one per voice of V, in V's order, so that with V
\* non-empty the sync step was not skipped.
C25_SyncsFetchedVoices ==
    (voicesPc = "idle" /\ response.success)
        => /\ upserts = response.voices
           /\ response.voices # <<>> => upserts # <<>>

\* The request at which the route stops asking: the first page that failed
\* or carries no next_page_token.
LastRequest(ups) ==
    CHOOSE n \in 1..Len(ups) :
        /\ ups[n].kind # "ok" \/ ~ups[n].token
        /\ \A j \in 1..(n - 1) : ups[j].kind = "ok" /\ ups[j].token
\* The voices of the first n pages, in order.
RECURSIVE PagesInOrder(_, _)
PagesInOrder(ups, n) ==
    IF n = 0 THEN <<>> ELSE PagesInOrder(ups, n - 1) \o ups[n].voices

\* C26: the route asks for pages until one carries no next_page_token and
\* answers with all their voices in order and stats.total their number;
\* without an API key it answers 500 and asks for nothing; it answers 401
\* as soon as a page request gets 401 and 500 for a page that fails
\* otherwise, and then hands out no voices and no success.
C26_AllPagesOrFailure ==
    response # NoResponse
        => IF ~apiKey
           THEN response = [status |-> 500, success |-> FALSE, voices |-> <<>>,
                            total |-> 0, requests |-> 0]
           ELSE LET n == LastRequest(upstream) IN
                /\ response.requests = n
                /\ upstream[n].kind = "ok"
                     => /\ response.status = 200 /\ response.success
                        /\ response.voices = PagesInOrder(upstream, n)
                        /\ response.total = Len(response.voices)
                /\ upstream[n].kind = "401" => response.status = 401
                /\ upstream[n].kind \in {"error", "throw"}
                     => response.status = 500
                /\ upstream[n].kind # "ok"
                     => (~response.success /\ response.voices = <<>>)

\* Two pages were fetched and their voices are returned in order.
C26_Witness ==
    /\ response.status = 200 /\ response.success
    /\ response.requests = 2
    /\ response.voices = <<"v2", "v1">>
    /\ response.total = 2

C28_UserWithSession ==
    /\ (user = NoUser) <=> (session = NoSession)
    /\ user # NoUser => session.user = user

\* The persisted pair was restored by the initial pass.
C28_Witness ==
    /\ last.op = "getInitialSession" /\ last.res = "persisted"
    /\ user # NoUser /\ session # NoSession /\ session.user = user

PersistedUnparsable ==
    /\ Present(storedUser) /\ Present(storedSession)
    /\ JSONParseThrows(storedUser) \/ JSONParseThrows(storedSession)

\* C30: with both entries present and not parsable the initial pass ends in
\* its first piece with no user, no session and loading false, without a
\* call of getSession and with the entries left in place, so that every
\* later fresh start finds them again; they go only when a sign-out removes
\* them or a login replaces them.
C30_UnparsableEntriesStay ==
    [][/\ (InitialCheckStep /\ PersistedUnparsable)
          => /\ user' = NoUser /\ session' = NoSession
             /\ ~loading'
             /\ initPc' = "done"
             /\ getSessionCalls' = getSessionCalls
             /\ view' = "login"
             /\ UNCHANGED <<storedUser, storedSession>>
       /\ (PersistedUnparsable
             /\ <<storedUser, storedSession>>' # <<storedUser, storedSession>>)
          => last'.op \in {"signOut", "signInWithCredentials"}]_vars

\* A second fresh start has met the same unparsable entries.
C30_Witness ==
    /\ last.op = "getInitialSession" /\ last.res = "throw"
    /\ PersistedUnparsable
    /\ getSessionCalls = 0
    /\ user = NoUser /\ ~loading /\ view = "login"
    /\ dateNow > 0

====
